---------------------------- MODULE Spec2Model ----------------------------
(***************************************************************************)
(* The schedule-suggestion engine of src/src/services/aiService.js, the    *)
(* second scorer of src/src/utils/timeUtils.js and the scheduler state of  *)
(* src/src/App.jsx.                                                        *)
(*                                                                         *)
(* Times are counted in quarter hours (the finest step the source uses is  *)
(* 11.25), so 9:00 is 36 and 12:30 is 50.  All the source's arithmetic on  *)
(* such values is exact in IEEE doubles; the one division of the scorers   *)
(* is modelled on exact rationals.                                         *)
(***************************************************************************)
EXTENDS Integers, Sequences, FiniteSets, TLC

VARIABLES
    blocks,        \* engine: the interval list handed to the engine
    currentHour,   \* engine: new Date().getHours() read by the last call
    analysis,      \* engine: the record analyzeSchedule returned last
    suggestions,   \* engine: the list getFallbackSuggestions returned last
    returned,      \* engine: every <<hour, list>> getFallbackSuggestions was called at and returned
    utilScore,     \* engine: what getProductivityScore returned last
    rawScore,      \* engine: calculateProductivityScore's local score before it is normalized
    called,        \* engine: the functions invoked so far
    backend,       \* App: getAISuggestions consults the remote service
    selectedDate,  \* App: useState selectedDate (its date key)
    timeBlocks,    \* App: useState timeBlocks, date key -> list of blocks
    aiSuggestions, \* App: useState aiSuggestions
    isLoadingAI,   \* App: useState isLoadingAI
    requests,      \* App: the calls of getAISuggestions still pending
    lastDone,      \* App: which path the call that settled last took, and how it settled
    storage,       \* browser: the text localStorage holds under 'timeBlocks'
    loading,       \* App: the setTimeBlocks(JSON.parse(...)) of the load effect not yet rendered
    userSchedule   \* history: the schedule as the user's own operations left it

engineVars == <<blocks, currentHour, analysis, suggestions, returned, utilScore, rawScore, called>>
appVars == <<backend, selectedDate, timeBlocks, aiSuggestions, isLoadingAI, requests, lastDone,
             storage, loading, userSchedule>>
vars == <<blocks, currentHour, analysis, suggestions, returned, utilScore, rawScore, called,
          backend, selectedDate, timeBlocks, aiSuggestions, isLoadingAI, requests, lastDone,
          storage, loading, userSchedule>>

-----------------------------------------------------------------------------
(* Units and bounds *)

Hour == 4

MaxLen == 3

MaxStored == 3

MaxRequests == 1

Hours == {8, 13}

Iv(c, s, e) == [category |-> c, startTime |-> s, endTime |-> e]

\* The intervals engine inputs are drawn from: the spec's scenarios, the
\* thresholds of the rules (4h, 8h, start at 11) and intervals that break
\* startTime < endTime, which the engine does not validate.
IntervalDomain ==
    { Iv("work", 36, 44),      \* 9-11
      Iv("break", 48, 50),     \* 12-12.5
      Iv("work", 56, 72),      \* 14-18
      Iv("work", 36, 60),      \* 9-15
      Iv("work", 36, 52),      \* 9-13
      Iv("work", 44, 52),      \* 11-13
      Iv("meeting", 40, 44),   \* 10-11
      Iv("learning", 52, 56),  \* 13-14
      Iv("exercise", 76, 80),  \* 19-20
      Iv("travel", 76, 80),    \* 19-20, a category outside the table
      Iv("meeting", 64, 68),   \* 16-17
      Iv("meeting", 36, 56),   \* 9-14, longer than 4h
      Iv("personal", 36, 36),  \* 9-9, zero duration
      Iv("personal", 48, 38) } \* 12-9.5, reversed

InputLists == UNION { [1..n -> IntervalDomain] : n \in 0..MaxLen }

-----------------------------------------------------------------------------
(* Numbers a JavaScript expression can yield here: a finite integer, NaN or *)
(* -Infinity.                                                               *)

Num(n) == [kind |-> "num", val |-> n]
NaN == [kind |-> "nan", val |-> 0]
NegInfinity == [kind |-> "ninf", val |-> 0]

\* x < n as JavaScript evaluates it (false for NaN)
JsLess(x, n) == \/ x.kind = "ninf"
                \/ x.kind = "num" /\ x.val < n

\* Math.round(10 * num / den) for den > 0: nearest integer, ties upwards
RoundTimes10(num, den) == (20 * num + den) \div (2 * den)

Min(a, b) == IF a < b THEN a ELSE b
Max(a, b) == IF a > b THEN a ELSE b

-----------------------------------------------------------------------------
(* aiService.js *)

Duration(b) == b.endTime - b.startTime

RECURSIVE SumDuration(_)
SumDuration(s) == IF s = <<>> THEN 0 ELSE Duration(Head(s)) + SumDuration(Tail(s))

IsWork(b) == b.category = "work"
IsBreak(b) == b.category = "break"
IsMeeting(b) == b.category = "meeting"

\* [...blocks].sort((a, b) => a.startTime - b.startTime): stable
RECURSIVE InsertByStart(_, _)
InsertByStart(b, s) ==
    IF s = <<>> THEN <<b>>
    ELSE IF b.startTime < Head(s).startTime THEN <<b>> \o s
    ELSE <<Head(s)>> \o InsertByStart(b, Tail(s))

RECURSIVE SortByStart(_)
SortByStart(s) ==
    IF s = <<>> THEN <<>>
    ELSE InsertByStart(s[Len(s)], SortByStart(SubSeq(s, 1, Len(s) - 1)))

\* Faulty variant: any positive separation counts as a gap
RECURSIVE GapsFromAnySeparation(_, _)
GapsFromAnySeparation(sorted, i) ==
    IF i >= Len(sorted) THEN <<>>
    ELSE LET currentEnd == sorted[i].endTime
             nextStart == sorted[i + 1].startTime
         IN (IF nextStart - currentEnd > 0
             THEN << [start |-> currentEnd, end |-> nextStart,
                      duration |-> nextStart - currentEnd] >>
             ELSE <<>>) \o GapsFromAnySeparation(sorted, i + 1)

RECURSIVE GapsFrom(_, _)
GapsFrom(sorted, i) ==
    IF i >= Len(sorted) THEN <<>>
    ELSE LET currentEnd == sorted[i].endTime
             nextStart == sorted[i + 1].startTime
         IN (IF nextStart - currentEnd >= 1 * Hour
             THEN << [start |-> currentEnd, end |-> nextStart,
                      duration |-> nextStart - currentEnd] >>
             ELSE <<>>) \o GapsFrom(sorted, i + 1)

\* Faulty variant: the blocks are scanned in the order given, without sorting
findScheduleGapsUnsorted(bs) == GapsFrom(bs, 1)

\* Faulty variant: blocks.sort(...) without the copy reorders the caller's array
SortInPlace(bs) == [input |-> SortByStart(bs), sortedBlocks |-> SortByStart(bs)]

\* const sortedBlocks = [...blocks].sort(...): the copy is sorted, the array
\* the caller passed (input) keeps its order
SpreadAndSort(bs) == [input |-> bs, sortedBlocks |-> SortByStart(bs)]

findScheduleGaps(bs) == GapsFrom(SpreadAndSort(bs).sortedBlocks, 1)

\* Faulty variant: a category outside the table earns no bonus
bonusesNoDefault(c) == CASE c = "work" -> 5
                         [] c = "learning" -> 7
                         [] c = "exercise" -> 8
                         [] c = "break" -> 3
                         [] c = "meeting" -> 4
                         [] c = "personal" -> 2
                         [] OTHER -> 0

bonuses(c) == CASE c = "work" -> 5
                [] c = "learning" -> 7
                [] c = "exercise" -> 8
                [] c = "break" -> 3
                [] c = "meeting" -> 4
                [] c = "personal" -> 2
                [] OTHER -> 3

PeakBonus(b) ==
    IF b.category = "work" /\ b.startTime >= 9 * Hour /\ b.startTime <= 11 * Hour
    THEN Duration(b) * 3 ELSE 0

LongPenalty(b) ==
    IF Duration(b) > 4 * Hour THEN (Duration(b) - 4 * Hour) * 5 ELSE 0

\* what one pass of the forEach adds to score (in quarter-hour units)
BlockScore(b) ==
    Duration(b) * 10 + Duration(b) * bonuses(b.category) + PeakBonus(b) - LongPenalty(b)

RECURSIVE AccumulatedScore(_)
AccumulatedScore(s) ==
    IF s = <<>> THEN 0 ELSE BlockScore(Head(s)) + AccumulatedScore(Tail(s))

\* Math.min(100, Math.round(score / totalTime * 10))
\* Faulty variant: the average per hour is not multiplied by 10
NormalizeScorePerHour(score, totalTime) ==
    IF totalTime > 0 THEN Num(Min(100, (2 * score + totalTime) \div (2 * totalTime)))
    ELSE IF totalTime < 0 THEN Num(Min(100, (2 * (0 - score) - totalTime) \div (2 * (0 - totalTime))))
    ELSE IF score = 0 THEN NaN
    ELSE IF score > 0 THEN Num(100)
    ELSE NegInfinity

NormalizeScore(score, totalTime) ==
    IF totalTime > 0 THEN Num(Min(100, RoundTimes10(score, totalTime)))
    ELSE IF totalTime < 0 THEN Num(Min(100, RoundTimes10(-score, -totalTime)))
    ELSE IF score = 0 THEN NaN                \* 0 / 0
    ELSE IF score > 0 THEN Num(100)           \* Math.min(100, Infinity)
    ELSE NegInfinity                          \* Math.min(100, -Infinity)

\* Faulty variant: the empty list is not answered before the division
calculateProductivityScoreNoGuard(bs) ==
    NormalizeScore(AccumulatedScore(bs), SumDuration(bs))

calculateProductivityScore(bs) ==
    IF Len(bs) = 0 THEN Num(0)
    ELSE NormalizeScore(AccumulatedScore(bs), SumDuration(bs))

\* Faulty variant: a work block of exactly 4 hours already counts as long
analyzeScheduleLongAtFour(bs) ==
    LET workBlocks == SelectSeq(bs, IsWork)
        breakBlocks == SelectSeq(bs, IsBreak)
        meetingBlocks == SelectSeq(bs, IsMeeting)
        gaps == findScheduleGaps(bs)
        totalWorkTime == SumDuration(workBlocks)
        hasLongWorkBlocks == \E i \in 1..Len(workBlocks) : Duration(workBlocks[i]) >= 4 * Hour
    IN [ workBlocks |-> workBlocks,
         breakBlocks |-> breakBlocks,
         meetingBlocks |-> meetingBlocks,
         gaps |-> gaps,
         totalWorkTime |-> totalWorkTime,
         hasGaps |-> Len(gaps) > 0,
         needsEnergyOptimization |-> totalWorkTime > 8 * Hour \/ hasLongWorkBlocks,
         productivityScore |-> calculateProductivityScore(bs),
         hasLongWorkBlocks |-> hasLongWorkBlocks ]

analyzeSchedule(bs) ==
    LET workBlocks == SelectSeq(bs, IsWork)
        breakBlocks == SelectSeq(bs, IsBreak)
        meetingBlocks == SelectSeq(bs, IsMeeting)
        gaps == findScheduleGaps(bs)
        totalWorkTime == SumDuration(workBlocks)
        hasLongWorkBlocks == \E i \in 1..Len(workBlocks) : Duration(workBlocks[i]) > 4 * Hour
    IN [ workBlocks |-> workBlocks,
         breakBlocks |-> breakBlocks,
         meetingBlocks |-> meetingBlocks,
         gaps |-> gaps,
         totalWorkTime |-> totalWorkTime,
         hasGaps |-> Len(gaps) > 0,
         needsEnergyOptimization |-> totalWorkTime > 8 * Hour \/ hasLongWorkBlocks,
         productivityScore |-> calculateProductivityScore(bs),
         hasLongWorkBlocks |-> hasLongWorkBlocks ]

EmptyAnalysis == analyzeSchedule(<<>>)

\* a proposed block of a suggestion
Proposed(t, c, s, e) == [title |-> t, category |-> c, startTime |-> s, endTime |-> e]

\* a suggestion: its type, title, proposed blocks and the number its
\* description interpolates (Num(0) when the description is fixed text);
\* the reasons are fixed text per title
Suggestion(ty, t, bs, n) == [type |-> ty, title |-> t, blocks |-> bs, shown |-> n]

\* gaps.reduce((max, gap) => gap.duration > max.duration ? gap : max, gaps[0])
\* Faulty variant: on a tie the later gap replaces the earlier one
RECURSIVE LargestGapFromLatest(_, _, _)
LargestGapFromLatest(gaps, i, max) ==
    IF i > Len(gaps) THEN max
    ELSE LargestGapFromLatest(gaps, i + 1,
                              IF gaps[i].duration >= max.duration THEN gaps[i] ELSE max)

RECURSIVE LargestGapFrom(_, _, _)
LargestGapFrom(gaps, i, max) ==
    IF i > Len(gaps) THEN max
    ELSE LargestGapFrom(gaps, i + 1, IF gaps[i].duration > max.duration THEN gaps[i] ELSE max)

LargestGap(gaps) == LargestGapFrom(gaps, 1, gaps[1])

\* Math.round of a quarter-hour count expressed in hours
RoundHours(q) == (2 * q + Hour) \div (2 * Hour)

generateTimeBlockingSuggestion(a) ==
    LET largestGap == LargestGap(a.gaps)
        deep == IF largestGap.duration >= 2 * Hour
                THEN << Proposed("Deep Work Block", "work",
                                 largestGap.start, largestGap.start + 2 * Hour) >>
                ELSE <<>>
        learn == IF largestGap.duration >= 3 * Hour
                 THEN << Proposed("Learning Time", "learning",
                                  largestGap.start + 2 * Hour, largestGap.start + 3 * Hour) >>
                 ELSE <<>>
    IN Suggestion("optimization", "Optimize Your Schedule", deep \o learn,
                  Num(RoundHours(largestGap.duration)))

\* Faulty variant: the break follows the last work block of the list
generateBreakSuggestionLastWork(a) ==
    LET workBlocks == a.workBlocks
        breakTime == IF Len(workBlocks) > 0 THEN workBlocks[Len(workBlocks)].endTime + 2
                     ELSE 12 * Hour
    IN Suggestion("timeblocking", "Add Strategic Breaks",
                  << Proposed("Coffee Break", "break", breakTime, breakTime + 2) >>, Num(0))

generateBreakSuggestion(a) ==
    LET workBlocks == a.workBlocks
        breakTime == IF Len(workBlocks) > 0 THEN workBlocks[1].endTime + 2 ELSE 12 * Hour
    IN Suggestion("timeblocking", "Add Strategic Breaks",
                  << Proposed("Coffee Break", "break", breakTime, breakTime + 2) >>, Num(0))

\* Faulty variant: the micro break is proposed whenever the suggestion is built
generateEnergySuggestionAlwaysMicro(a) ==
    LET recharge == IF a.totalWorkTime > 8 * Hour
                    THEN << Proposed("Energy Recharge", "break", 14 * Hour, 15 * Hour) >>
                    ELSE <<>>
        micro == << Proposed("Micro Break", "break", 11 * Hour, 11 * Hour + 1) >>
    IN Suggestion("balance", "Optimize Your Energy", recharge \o micro, Num(0))

generateEnergySuggestion(a) ==
    LET recharge == IF a.totalWorkTime > 8 * Hour
                    THEN << Proposed("Energy Recharge", "break", 14 * Hour, 15 * Hour) >>
                    ELSE <<>>
        micro == IF a.hasLongWorkBlocks
                 THEN << Proposed("Micro Break", "break", 11 * Hour, 11 * Hour + 1) >>
                 ELSE <<>>
    IN Suggestion("balance", "Optimize Your Energy", recharge \o micro, Num(0))

\* Faulty variant: only the morning work block is proposed
generateProductivitySuggestionWorkOnly(a) ==
    Suggestion("productivity", "Boost Your Productivity",
               << Proposed("Morning Deep Work", "work", 9 * Hour, 11 * Hour) >>,
               a.productivityScore)

generateProductivitySuggestion(a) ==
    Suggestion("productivity", "Boost Your Productivity",
               << Proposed("Morning Deep Work", "work", 9 * Hour, 11 * Hour),
                  Proposed("Exercise Break", "exercise", 18 * Hour, 19 * Hour) >>,
               a.productivityScore)

\* Faulty variant: the template has no personal block in the evening
generateDailyPlanningSuggestionShort ==
    Suggestion("timeblocking", "Plan Your Perfect Day",
               << Proposed("Morning Deep Work", "work", 9 * Hour, 11 * Hour),
                  Proposed("Lunch Break", "break", 12 * Hour, 13 * Hour),
                  Proposed("Afternoon Tasks", "work", 14 * Hour, 16 * Hour) >>,
               Num(0))

generateDailyPlanningSuggestion ==
    Suggestion("timeblocking", "Plan Your Perfect Day",
               << Proposed("Morning Deep Work", "work", 9 * Hour, 11 * Hour),
                  Proposed("Lunch Break", "break", 12 * Hour, 13 * Hour),
                  Proposed("Afternoon Tasks", "work", 14 * Hour, 16 * Hour),
                  Proposed("Personal Time", "personal", 19 * Hour, 20 * Hour) >>,
               Num(0))

\* Faulty variant: currentHour is used, breaks are only suggested before noon
getFallbackSuggestionsByHour(existingBlocks, hour) ==
    LET a == analyzeSchedule(existingBlocks)
    IN (IF a.hasGaps /\ Len(a.gaps) > 0 THEN <<generateTimeBlockingSuggestion(a)>> ELSE <<>>)
       \o (IF Len(a.workBlocks) > 0 /\ Len(a.breakBlocks) < 2 /\ hour < 12
           THEN <<generateBreakSuggestion(a)>> ELSE <<>>)
       \o (IF a.needsEnergyOptimization THEN <<generateEnergySuggestion(a)>> ELSE <<>>)
       \o (IF JsLess(a.productivityScore, 70)
           THEN <<generateProductivitySuggestion(a)>> ELSE <<>>)
       \o (IF Len(existingBlocks) = 0 THEN <<generateDailyPlanningSuggestion>> ELSE <<>>)

\* Faulty variant: the rules form an else-if chain, the first that holds wins
getFallbackSuggestionsFirstOnly(existingBlocks, hour) ==
    LET a == analyzeSchedule(existingBlocks)
    IN IF a.hasGaps /\ Len(a.gaps) > 0 THEN <<generateTimeBlockingSuggestion(a)>>
       ELSE IF Len(a.workBlocks) > 0 /\ Len(a.breakBlocks) < 2
            THEN <<generateBreakSuggestion(a)>>
       ELSE IF a.needsEnergyOptimization THEN <<generateEnergySuggestion(a)>>
       ELSE IF JsLess(a.productivityScore, 70) THEN <<generateProductivitySuggestion(a)>>
       ELSE IF Len(existingBlocks) = 0 THEN <<generateDailyPlanningSuggestion>>
       ELSE <<>>

\* The body of getFallbackSuggestions after its 1500 ms delay.  hour is the
\* value of new Date().getHours() the function reads.
getFallbackSuggestions(existingBlocks, hour) ==
    LET a == analyzeSchedule(existingBlocks)
    IN (IF a.hasGaps /\ Len(a.gaps) > 0 THEN <<generateTimeBlockingSuggestion(a)>> ELSE <<>>)
       \o (IF Len(a.workBlocks) > 0 /\ Len(a.breakBlocks) < 2
           THEN <<generateBreakSuggestion(a)>> ELSE <<>>)
       \o (IF a.needsEnergyOptimization THEN <<generateEnergySuggestion(a)>> ELSE <<>>)
       \o (IF JsLess(a.productivityScore, 70)
           THEN <<generateProductivitySuggestion(a)>> ELSE <<>>)
       \o (IF Len(existingBlocks) = 0 THEN <<generateDailyPlanningSuggestion>> ELSE <<>>)

-----------------------------------------------------------------------------
(* timeUtils.js *)

calculateDuration(startTime, endTime) == endTime - startTime

blocksOverlap(block1, block2) ==
    block1.startTime < block2.endTime /\ block2.startTime < block1.endTime

UtilBonus(b) ==
    LET d == calculateDuration(b.startTime, b.endTime)
    IN (IF b.category = "work" THEN d * 5 ELSE 0)
       + (IF b.category = "break" THEN d * 3 ELSE 0)
       + (IF b.category = "exercise" THEN d * 8 ELSE 0)
       + (IF b.category = "learning" THEN d * 7 ELSE 0)

RECURSIVE UtilAccumulated(_)
UtilAccumulated(s) ==
    IF s = <<>> THEN 0
    ELSE LET d == calculateDuration(Head(s).startTime, Head(s).endTime)
         IN d * 10 + UtilBonus(Head(s))
            - (IF d > 4 * Hour THEN (d - 4 * Hour) * 5 ELSE 0)
            + UtilAccumulated(Tail(s))

\* Math.min(100, Math.max(0, Math.round(score / Math.max(totalTime, 1) * 10)))
getProductivityScore(bs) ==
    IF Len(bs) = 0 THEN 0
    ELSE Min(100, Max(0, RoundTimes10(UtilAccumulated(bs), Max(SumDuration(bs), 1 * Hour))))

-----------------------------------------------------------------------------
(* aiService.js: getAISuggestions *)

Resolved(v) == [settled |-> "resolved", value |-> v]
Rejected == [settled |-> "rejected", value |-> <<>>]

\* a block of a suggestion as the remote service sends it
RemoteBlock(t, c, s, e) == [title |-> t, category |-> c, start_time |-> s, end_time |-> e]

\* well-formed bodies of an OK response
RemoteBodies ==
    { << [type |-> "optimization", title |-> "Remote plan",
          blocks |-> << RemoteBlock("Focus", "work", 64, 68) >>] >>,
      << [type |-> "balance", title |-> "Remote rest",
          blocks |-> << RemoteBlock("Rest", "break", 44, 40) >>] >> }

\* data.map(suggestion => ({ ..., blocks: suggestion.blocks.map(...) }))
MapRemote(data) ==
    [ i \in 1..Len(data) |->
        Suggestion(data[i].type, data[i].title,
                   [ j \in 1..Len(data[i].blocks) |->
                       Proposed(data[i].blocks[j].title, data[i].blocks[j].category,
                                data[i].blocks[j].start_time, data[i].blocks[j].end_time) ],
                   Num(0)) ]

\* what fetch and response.json() can come to, other than a mapped OK body
FailureOutcomes == {"status", "network", "body"}

\* Faulty variant: response.json() is awaited outside the try block
getAISuggestionsBodyUncaught(outcome, data, existingBlocks, hour) ==
    CASE outcome = "skipped" -> Resolved(getFallbackSuggestions(existingBlocks, hour))
      [] outcome = "ok" -> Resolved(MapRemote(data))
      [] outcome = "status" -> Resolved(getFallbackSuggestions(existingBlocks, hour))
      [] outcome = "body" -> Rejected
      [] OTHER -> Resolved(getFallbackSuggestions(existingBlocks, hour))

\* How the promise of getAISuggestions settles.  outcome is what became of
\* the remote call: "skipped" (no backend configured), "ok" with body data,
\* "status" (response.ok false), "network" (fetch rejected) or "body"
\* (response.json() or the mapping threw).
getAISuggestions(outcome, data, existingBlocks, hour) ==
    CASE outcome = "skipped" -> Resolved(getFallbackSuggestions(existingBlocks, hour))
      [] outcome = "ok" -> Resolved(MapRemote(data))
      [] outcome = "status" -> Resolved(getFallbackSuggestions(existingBlocks, hour))
      [] OTHER -> Resolved(getFallbackSuggestions(existingBlocks, hour))

-----------------------------------------------------------------------------
(* App.jsx *)

Dates == {"mon", "tue"}

\* what the ScheduleModal form can hold when it is submitted
FormInputs ==
    { Iv("work", 36, 60),      \* 9-15
      Iv("work", 44, 40) }     \* 11-10, end before start

NothingDone == [path |-> "none", settled |-> "none"]

\* timeBlocks[dateKey] || []
DayBlocks(tb, d) == IF d \in DOMAIN tb THEN tb[d] ELSE <<>>

WithDay(tb, d, list) == [ k \in DOMAIN tb \cup {d} |-> IF k = d THEN list ELSE tb[k] ]

Stored(tb) == LET RECURSIVE Count(_)
                  Count(ds) == IF ds = {} THEN 0
                               ELSE LET d == CHOOSE x \in ds : TRUE
                                    IN Len(tb[d]) + Count(ds \ {d})
              IN Count(DOMAIN tb)

RemoveAt(s, i) == SubSeq(s, 1, i - 1) \o SubSeq(s, i + 1, Len(s))

\* generateAISuggestions up to its await: the call of getAISuggestions with
\* the day's array (the stored array itself when the key exists)
NewRequest(tb, d) ==
    [ date |-> d,
      existingBlocks |-> DayBlocks(tb, d),
      alias |-> d \in DOMAIN tb,
      stage |-> IF backend THEN "fetch" ELSE "delay",
      outcome |-> IF backend THEN "pending" ELSE "skipped" ]

\* the pending calls after the array stored under d was changed in place
Mutated(rs, d, list) ==
    [ i \in 1..Len(rs) |->
        IF rs[i].date = d /\ rs[i].alias THEN [rs[i] EXCEPT !.existingBlocks = list]
        ELSE rs[i] ]

\* the pending calls after the array stored under d was replaced by a new one
Detached(rs, d) ==
    [ i \in 1..Len(rs) |->
        IF rs[i].date = d THEN [rs[i] EXCEPT !.alias = FALSE] ELSE rs[i] ]

\* JSON.stringify(timeBlocks): per date key the blocks in order, each written
\* out field by field
JSONstringify(tb) ==
    [ d \in DOMAIN tb |->
        [ i \in 1..Len(tb[d]) |-> <<tb[d][i].category, tb[d][i].startTime, tb[d][i].endTime>> ] ]

\* JSON.parse of such a text
JSONparse(text) ==
    [ d \in DOMAIN text |->
        [ i \in 1..Len(text[d]) |-> Iv(text[d][i][1], text[d][i][2], text[d][i][3]) ] ]

NothingQueued == [queued |-> FALSE, value |-> << >>]

\* the effect on [timeBlocks]: localStorage.setItem('timeBlocks', JSON.stringify(timeBlocks))
SaveEffect(tb) == storage' = JSONstringify(tb)

\* the effect on [selectedDate, timeBlocks]: generateAISuggestions starts
RunEffect(rs, tb, d) ==
    /\ isLoadingAI' = TRUE
    /\ requests' = Append(rs, NewRequest(tb, d))

Init ==
    /\ backend \in BOOLEAN
    /\ selectedDate = "mon"
    /\ timeBlocks = << >>
    /\ aiSuggestions = <<>>
    /\ isLoadingAI = TRUE
    /\ requests = << NewRequest(<< >>, "mon") >>
    /\ lastDone = NothingDone
    /\ storage = JSONstringify(timeBlocks)
    /\ loading = NothingQueued
    /\ userSchedule = timeBlocks
    /\ blocks = <<>>
    /\ currentHour = 8
    /\ analysis = EmptyAnalysis
    /\ suggestions = <<>>
    /\ returned = {}
    /\ utilScore = 0
    /\ rawScore = 0
    /\ called = {}

handleDateSelect(date) ==
    /\ Len(requests) < MaxRequests
    /\ selectedDate' = date
    /\ UNCHANGED <<timeBlocks, aiSuggestions, lastDone, backend, storage, loading, userSchedule>>
    /\ RunEffect(requests, timeBlocks, date)
    /\ UNCHANGED engineVars

\* ScheduleModal.handleSubmit and handleSaveBlock for a new block
AddBlock(form) ==
    /\ Len(requests) < MaxRequests
    /\ Stored(timeBlocks) < MaxStored
    /\ form.startTime < form.endTime
    /\ LET list == Append(DayBlocks(timeBlocks, selectedDate), form)
       IN /\ timeBlocks' = WithDay(timeBlocks, selectedDate, list)
          /\ RunEffect(Mutated(requests, selectedDate, list), WithDay(timeBlocks, selectedDate, list), selectedDate)
    /\ SaveEffect(timeBlocks')
    /\ userSchedule' = timeBlocks'
    /\ UNCHANGED <<selectedDate, aiSuggestions, lastDone, backend, loading>>
    /\ UNCHANGED engineVars

\* ScheduleModal.handleSubmit and handleSaveBlock for the block edited
EditBlock(i, form) ==
    /\ Len(requests) < MaxRequests
    /\ i \in 1..Len(DayBlocks(timeBlocks, selectedDate))
    /\ form.startTime < form.endTime
    /\ LET list == [DayBlocks(timeBlocks, selectedDate) EXCEPT ![i] = form]
       IN /\ timeBlocks' = WithDay(timeBlocks, selectedDate, list)
          /\ RunEffect(Mutated(requests, selectedDate, list), WithDay(timeBlocks, selectedDate, list), selectedDate)
    /\ SaveEffect(timeBlocks')
    /\ userSchedule' = timeBlocks'
    /\ UNCHANGED <<selectedDate, aiSuggestions, lastDone, backend, loading>>
    /\ UNCHANGED engineVars

handleDeleteBlock(i) ==
    /\ Len(requests) < MaxRequests
    /\ i \in 1..Len(DayBlocks(timeBlocks, selectedDate))
    /\ timeBlocks' = WithDay(timeBlocks, selectedDate,
                             RemoveAt(timeBlocks[selectedDate], i))
    /\ RunEffect(Detached(requests, selectedDate), timeBlocks', selectedDate)
    /\ SaveEffect(timeBlocks')
    /\ userSchedule' = timeBlocks'
    /\ UNCHANGED <<selectedDate, aiSuggestions, lastDone, backend, loading>>
    /\ UNCHANGED engineVars

\* the blocks a suggestion adds, as stored ({...block, id})
StoredBlocks(bs) == [ j \in 1..Len(bs) |-> Iv(bs[j].category, bs[j].startTime, bs[j].endTime) ]

applyAISuggestion(k) ==
    /\ Len(requests) < MaxRequests
    /\ ~isLoadingAI
    /\ k \in 1..Len(aiSuggestions)
    /\ Stored(timeBlocks) + Len(aiSuggestions[k].blocks) <= MaxStored
    /\ LET list == DayBlocks(timeBlocks, selectedDate) \o StoredBlocks(aiSuggestions[k].blocks)
       IN /\ timeBlocks' = WithDay(timeBlocks, selectedDate, list)
          /\ RunEffect(Mutated(requests, selectedDate, list), WithDay(timeBlocks, selectedDate, list), selectedDate)
    /\ SaveEffect(timeBlocks')
    /\ userSchedule' = timeBlocks'
    /\ UNCHANGED <<selectedDate, aiSuggestions, lastDone, backend, loading>>
    /\ UNCHANGED engineVars

\* generateAISuggestions after its await, for the call at position i
Settle(i, outcome, res) ==
    /\ aiSuggestions' = IF res.settled = "resolved" THEN res.value ELSE aiSuggestions
    /\ isLoadingAI' = FALSE
    /\ requests' = RemoveAt(requests, i)
    /\ lastDone' = [path |-> IF outcome = "ok" THEN "remote" ELSE "local",
                     settled |-> res.settled]
    /\ UNCHANGED <<selectedDate, timeBlocks, backend, storage, loading, userSchedule>>
    /\ UNCHANGED engineVars

\* the remote service answers OK with a body that parses and maps
RemoteAnswers(i) ==
    /\ i \in 1..Len(requests)
    /\ requests[i].stage = "fetch"
    /\ \E data \in RemoteBodies :
          Settle(i, "ok", getAISuggestions("ok", data, requests[i].existingBlocks, currentHour))

\* the remote call fails: non-OK status, transport error or unusable body;
\* getFallbackSuggestions starts its 1500 ms delay
RemoteFails(i) ==
    /\ i \in 1..Len(requests)
    /\ requests[i].stage = "fetch"
    /\ \E o \in FailureOutcomes :
          requests' = [requests EXCEPT ![i].stage = "delay", ![i].outcome = o]
    /\ UNCHANGED <<selectedDate, timeBlocks, aiSuggestions, isLoadingAI, lastDone, backend,
                   storage, loading, userSchedule>>
    /\ UNCHANGED engineVars

\* the 1500 ms timer of getFallbackSuggestions fires and the local rules run
FallbackTimer(i) ==
    /\ i \in 1..Len(requests)
    /\ requests[i].stage = "delay"
    /\ requests[i].outcome = "skipped" => i = 1   \* equal timers fire in the order they were set
    /\ \E h \in Hours :
          Settle(i, requests[i].outcome,
                 getAISuggestions(requests[i].outcome, <<>>, requests[i].existingBlocks, h))

TimerFires == \E i \in 1..MaxRequests : FallbackTimer(i)

\* parseInt of a number: its decimal text up to the point, i.e. truncation
\* towards zero
ParseInt(q) == IF q >= 0 THEN (q \div Hour) * Hour ELSE 0 - (((0 - q) \div Hour) * Hour)

\* the grid of generateTimeSlots: 6:00 to 22:30 in steps of 30 minutes
generateTimeSlots == { h * Hour + m : h \in 6..22, m \in {0, 2} }

\* does the filter of getBlocksForTimeSlot(timeSlot) keep this block
ListedInSlot(block, timeSlot) ==
    LET blockStart == ParseInt(block.startTime)
        blockEnd == ParseInt(block.endTime)
    IN timeSlot >= blockStart /\ timeSlot < blockEnd

getBlocksForTimeSlot(timeSlot) ==
    SelectSeq(DayBlocks(timeBlocks, selectedDate), LAMBDA block : ListedInSlot(block, timeSlot))

Next ==
    \/ \E d \in Dates : handleDateSelect(d)
    \/ \E f \in FormInputs : AddBlock(f)
    \/ \E i \in 1..MaxStored, f \in FormInputs : EditBlock(i, f)
    \/ \E i \in 1..MaxStored : handleDeleteBlock(i)
    \/ \E k \in 1..5 : applyAISuggestion(k)
    \/ \E i \in 1..MaxRequests : RemoteAnswers(i)
    \/ \E i \in 1..MaxRequests : RemoteFails(i)
    \/ TimerFires

Spec == Init /\ [][Next]_vars

\* The browser runs a timer that is due; nothing obliges the remote service
\* to answer or the user to act.
FairSpec == Init /\ [][Next]_vars /\ WF_vars(TimerFires)

-----------------------------------------------------------------------------
(* One call of getAISuggestions, made by the mount effect of App for an     *)
(* arbitrary stored day                                                      *)

\* The page is loaded again: the state of the old page and its pending calls
\* are gone, App mounts with its initial state and the effects of the first
\* commit run in the order they are declared: the load effect reads
\* localStorage and queues setTimeBlocks(JSON.parse(savedBlocks)) (the text is
\* never null after the first visit, and '{}' is truthy), the save effect
\* writes the still empty timeBlocks state, generateAISuggestions starts.
Reload ==
    /\ selectedDate' = "mon"
    /\ timeBlocks' = << >>
    /\ aiSuggestions' = <<>>
    /\ lastDone' = NothingDone
    /\ loading' = [queued |-> TRUE, value |-> JSONparse(storage)]
    /\ SaveEffect(<< >>)
    /\ RunEffect(<<>>, << >>, "mon")
    /\ UNCHANGED <<backend, userSchedule>>
    /\ UNCHANGED engineVars

\* The render that follows the load effect's setTimeBlocks: timeBlocks is the
\* parsed object, a new object, so the save effect and the suggestions effect
\* run again.
LoadRerender ==
    /\ loading.queued
    /\ timeBlocks' = loading.value
    /\ loading' = NothingQueued
    /\ SaveEffect(loading.value)
    /\ RunEffect(requests, loading.value, selectedDate)
    /\ UNCHANGED <<selectedDate, aiSuggestions, lastDone, backend, userSchedule>>
    /\ UNCHANGED engineVars

\* Sessions of the scheduler separated by reloads of the page.  The user
\* acts on a rendered page; a call may be answered and a timer may fire at any
\* time, and the page may be left at any time.
SessionNext ==
    \/ ~loading.queued /\ \E f \in FormInputs : AddBlock(f)
    \/ ~loading.queued /\ \E i \in 1..MaxStored : handleDeleteBlock(i)
    \/ \E i \in 1..(MaxRequests + 1) : RemoteAnswers(i)
    \/ \E i \in 1..(MaxRequests + 1) : RemoteFails(i)
    \/ \E i \in 1..(MaxRequests + 1) : FallbackTimer(i)
    \/ Reload
    \/ LoadRerender

SessionSpec == Init /\ [][SessionNext]_vars

CallInit ==
    /\ backend \in BOOLEAN
    /\ selectedDate = "mon"
    /\ timeBlocks \in { [ d \in {"mon"} |-> list ] : list \in InputLists }
    /\ aiSuggestions = <<>>
    /\ isLoadingAI = TRUE
    /\ requests = << NewRequest(timeBlocks, "mon") >>
    /\ lastDone = NothingDone
    /\ storage = JSONstringify(timeBlocks)
    /\ loading = NothingQueued
    /\ userSchedule = timeBlocks
    /\ blocks = <<>>
    /\ currentHour = 8
    /\ analysis = EmptyAnalysis
    /\ suggestions = <<>>
    /\ returned = {}
    /\ utilScore = 0
    /\ rawScore = 0
    /\ called = {}

CallNext ==
    \/ \E i \in 1..MaxRequests : RemoteAnswers(i)
    \/ \E i \in 1..MaxRequests : RemoteFails(i)
    \/ TimerFires

CallSpec == CallInit /\ [][CallNext]_vars

-----------------------------------------------------------------------------
(* The engine called on an arbitrary interval list *)

EngineInit ==
    /\ blocks \in InputLists
    /\ currentHour \in Hours
    /\ analysis = EmptyAnalysis
    /\ suggestions = <<>>
    /\ returned = {}
    /\ utilScore = 0
    /\ rawScore = 0
    /\ called = {}
    /\ backend = TRUE
    /\ selectedDate = "mon"
    /\ timeBlocks = << >>
    /\ aiSuggestions = <<>>
    /\ isLoadingAI = FALSE
    /\ requests = <<>>
    /\ lastDone = NothingDone
    /\ storage = JSONstringify(timeBlocks)
    /\ loading = NothingQueued
    /\ userSchedule = timeBlocks

\* a call of getFallbackSuggestions(blocks) at some hour of the day
CallGetFallbackSuggestions ==
    \E h \in Hours :
        /\ currentHour' = h
        /\ analysis' = analyzeSchedule(blocks)
        /\ suggestions' = getFallbackSuggestions(blocks, h)
        /\ returned' = returned \cup {<<h, suggestions'>>}
        /\ called' = called \cup {"getFallbackSuggestions"}
        /\ rawScore' = AccumulatedScore(blocks)
        /\ blocks' = SpreadAndSort(blocks).input
        /\ UNCHANGED utilScore
        /\ UNCHANGED appVars

\* a call of getProductivityScore(blocks)
CallGetProductivityScore ==
    /\ utilScore' = getProductivityScore(blocks)
    /\ called' = called \cup {"getProductivityScore"}
    /\ UNCHANGED <<blocks, currentHour, analysis, suggestions, returned, rawScore>>
    /\ UNCHANGED appVars

EngineNext == CallGetFallbackSuggestions \/ CallGetProductivityScore

EngineSpec == EngineInit /\ [][EngineNext]_vars

-----------------------------------------------------------------------------
(* Properties *)

FallbackCalled == "getFallbackSuggestions" \in called

ValidIntervals(bs) == \A i \in 1..Len(bs) : bs[i].startTime < bs[i].endTime

NonOverlapping(bs) ==
    \A i, j \in 1..Len(bs) : i < j => ~blocksOverlap(bs[i], bs[j])

\* C1: whatever intervals a scorer is given, the score it returns is an
\* integer between 0 and 100 (both scorers).
C1_ScoreInRange ==
    /\ FallbackCalled => /\ analysis.productivityScore.kind = "num"
                         /\ analysis.productivityScore.val \in 0..100
    /\ "getProductivityScore" \in called => utilScore \in 0..100

C2_Template ==
    [ type |-> "timeblocking", title |-> "Plan Your Perfect Day", shown |-> Num(0),
      blocks |-> << [title |-> "Morning Deep Work", category |-> "work",
                     startTime |-> 36, endTime |-> 44],
                    [title |-> "Lunch Break", category |-> "break",
                     startTime |-> 48, endTime |-> 52],
                    [title |-> "Afternoon Tasks", category |-> "work",
                     startTime |-> 56, endTime |-> 64],
                    [title |-> "Personal Time", category |-> "personal",
                     startTime |-> 76, endTime |-> 80] >> ]

C2_LowScorePair ==
    [ type |-> "productivity", title |-> "Boost Your Productivity", shown |-> Num(0),
      blocks |-> << [title |-> "Morning Deep Work", category |-> "work",
                     startTime |-> 36, endTime |-> 44],
                    [title |-> "Exercise Break", category |-> "exercise",
                     startTime |-> 72, endTime |-> 76] >> ]

\* C2 as claimed: for an empty day getFallbackSuggestions returns exactly one
\* suggestion, the empty-day template; no other rule contributes.
C2_EmptyDayOnlyTemplate ==
    (FallbackCalled /\ blocks = <<>>) => suggestions = << C2_Template >>

\* C2 as amended: for an empty day getFallbackSuggestions returns exactly two
\* suggestions, the low-score pair (the score of an empty day is 0) followed
\* by the empty-day template; the gap, break and energy rules add nothing.
C2_EmptyDayTwoSuggestions ==
    (FallbackCalled /\ blocks = <<>>) => suggestions = << C2_LowScorePair, C2_Template >>

C2_Witness == FallbackCalled /\ blocks = <<>> /\ Len(suggestions) = 2

\* C5: calls of getFallbackSuggestions with the same interval list return the
\* same list of suggestions, whatever the hour of the call and whatever was
\* called before.
C5_Deterministic == \A p, q \in returned : p[2] = q[2]

C5_Witness == blocks # <<>> /\ Cardinality(returned) = 2

C6_BreakRule ==
    /\ \E i \in 1..Len(blocks) : blocks[i].category = "work"
    /\ Cardinality({ i \in 1..Len(blocks) : blocks[i].category = "break" }) < 2

RECURSIVE C6_WorkTotal(_)
C6_WorkTotal(n) ==
    IF n = 0 THEN 0
    ELSE C6_WorkTotal(n - 1)
         + (IF blocks[n].category = "work" THEN blocks[n].endTime - blocks[n].startTime ELSE 0)

C6_EnergyRule ==
    \/ C6_WorkTotal(Len(blocks)) > 8 * Hour
    \/ \E i \in 1..Len(blocks) :
          blocks[i].category = "work" /\ blocks[i].endTime - blocks[i].startTime > 4 * Hour

C6_Expected ==
    (IF Len(analysis.gaps) > 0 THEN << <<"optimization", "Optimize Your Schedule">> >> ELSE <<>>)
    \o (IF C6_BreakRule THEN << <<"timeblocking", "Add Strategic Breaks">> >> ELSE <<>>)
    \o (IF C6_EnergyRule THEN << <<"balance", "Optimize Your Energy">> >> ELSE <<>>)
    \o (IF JsLess(analysis.productivityScore, 70)
        THEN << <<"productivity", "Boost Your Productivity">> >> ELSE <<>>)
    \o (IF Len(blocks) = 0 THEN << <<"timeblocking", "Plan Your Perfect Day">> >> ELSE <<>>)

\* C6: the result of getFallbackSuggestions holds 0 to 5 suggestions, one for
\* each rule whose own condition holds and none for the others, in the order
\* gap, break, energy, low score, empty day.
C6_RulesIndependent ==
    FallbackCalled =>
        /\ Len(suggestions) \in 0..5
        /\ [ i \in 1..Len(suggestions) |-> <<suggestions[i].type, suggestions[i].title>> ]
               = C6_Expected

C6_Witness == FallbackCalled /\ Len(suggestions) >= 3

C7_Expected ==
    { [ start |-> blocks[p[1]].endTime, end |-> blocks[p[2]].startTime,
        duration |-> blocks[p[2]].startTime - blocks[p[1]].endTime ] :
      p \in { q \in (1..Len(blocks)) \X (1..Len(blocks)) :
                /\ blocks[q[1]].startTime < blocks[q[2]].startTime
                /\ ~ \E k \in 1..Len(blocks) :
                        /\ blocks[q[1]].startTime < blocks[k].startTime
                        /\ blocks[k].startTime < blocks[q[2]].startTime
                /\ blocks[q[2]].startTime - blocks[q[1]].endTime >= 1 * Hour } }

\* C7: for non-overlapping intervals findScheduleGaps returns, in time order,
\* exactly the gaps between intervals that are neighbours in start order and
\* at least one hour apart; nothing before the first or after the last one.
C7_GapsBetweenNeighbours ==
    (FallbackCalled /\ ValidIntervals(blocks) /\ NonOverlapping(blocks)) =>
        /\ { analysis.gaps[i] : i \in 1..Len(analysis.gaps) } = C7_Expected
        /\ Len(analysis.gaps) = Cardinality(C7_Expected)
        /\ \A i, j \in 1..Len(analysis.gaps) :
              i < j => analysis.gaps[i].end <= analysis.gaps[j].start
        /\ \A i \in 1..Len(analysis.gaps), k \in 1..Len(blocks) :
              \/ blocks[k].endTime <= analysis.gaps[i].start
              \/ analysis.gaps[i].end <= blocks[k].startTime

C7_Witness ==
    /\ FallbackCalled /\ ValidIntervals(blocks) /\ NonOverlapping(blocks)
    /\ Len(blocks) = 3
    /\ blocks[1].startTime > blocks[2].startTime
    /\ Len(analysis.gaps) = 1

\* C8: every gap findScheduleGaps returns, for any input, lasts at least one
\* hour.
C8_GapsAtLeastOneHour ==
    \A i \in 1..Len(analysis.gaps) :
        /\ analysis.gaps[i].duration >= 1 * Hour
        /\ analysis.gaps[i].end - analysis.gaps[i].start >= 1 * Hour

C8_Witness ==
    FallbackCalled /\ ~NonOverlapping(blocks) /\ Len(analysis.gaps) >= 1

C10_Scenario ==
    << [category |-> "work", startTime |-> 36, endTime |-> 44],
       [category |-> "break", startTime |-> 48, endTime |-> 50],
       [category |-> "work", startTime |-> 56, endTime |-> 72] >>

\* C10: for work 9-11, break 12-12.5, work 14-18 the gaps are 11-12 (1h) and
\* 12.5-14 (1.5h), the break rule fires and the energy rule adds nothing.
C10_ScenarioResult ==
    (FallbackCalled /\ blocks = C10_Scenario) =>
        /\ analysis.gaps = << [start |-> 44, end |-> 48, duration |-> 4],
                              [start |-> 50, end |-> 56, duration |-> 6] >>
        /\ \E i \in 1..Len(suggestions) :
              /\ suggestions[i].type = "timeblocking"
              /\ suggestions[i].title = "Add Strategic Breaks"
        /\ \A i \in 1..Len(suggestions) : suggestions[i].type # "balance"

C10_Witness == FallbackCalled /\ blocks = C10_Scenario /\ Len(suggestions) = 2

\* C3: getAISuggestions never rejects; when the remote call does not succeed
\* it resolves with what the local rules give for the same existingBlocks.
C3_FallsBackNeverRejects ==
    /\ lastDone.settled # "rejected"
    /\ lastDone.path = "local" =>
          /\ lastDone.settled = "resolved"
          /\ \E h \in Hours :
                aiSuggestions = getFallbackSuggestions(timeBlocks[selectedDate], h)
          /\ ~isLoadingAI

C3_Witness ==
    /\ backend
    /\ lastDone.path = "local"
    /\ lastDone.settled = "resolved"
    /\ Len(aiSuggestions) >= 2

\* C4: a suggestion request that App started completes, even when the remote
\* service never answers: isLoadingAI goes back to false.
C4_RequestCompletes == [](isLoadingAI => <>(~isLoadingAI /\ requests = <<>>))

\* C9: no stored interval of a day overlaps a gap that findScheduleGaps
\* returns for that day.
C9_GapsUnscheduled ==
    \A d \in DOMAIN timeBlocks :
        LET day == timeBlocks[d]
            gaps == findScheduleGaps(day)
        IN \A i \in 1..Len(gaps), k \in 1..Len(day) :
              ~(day[k].startTime < gaps[i].end /\ gaps[i].start < day[k].endTime)

\* C11: a day holding a single interval longer than 4 hours scores strictly
\* lower than the day holding the otherwise identical 4-hour interval (same
\* category and start), so the long-block penalty shows in the returned score.
C11_PenaltyReflected ==
    (FallbackCalled /\ Len(blocks) = 1 /\ Duration(blocks[1]) > 4 * Hour) =>
        LET fourHours == calculateProductivityScore(
                             << Iv(blocks[1].category, blocks[1].startTime,
                                   blocks[1].startTime + 4 * Hour) >>)
        IN /\ analysis.productivityScore.kind = "num"
           /\ fourHours.kind = "num"
           /\ analysis.productivityScore.val < fourHours.val

\* C12: for a non-empty list whose intervals all have startTime = endTime the
\* scorers return the number 0 (no NaN, no infinity).
C12_ZeroTotalScoresZero ==
    (Len(blocks) > 0 /\ \A i \in 1..Len(blocks) : blocks[i].startTime = blocks[i].endTime) =>
        /\ FallbackCalled => analysis.productivityScore = Num(0)
        /\ "getProductivityScore" \in called => utilScore = 0

\* C13: the score of the empty list is 0, in calculateProductivityScore and in
\* getProductivityScore.
C13_EmptyScoresZero ==
    blocks = <<>> =>
        /\ FallbackCalled => analysis.productivityScore = Num(0)
        /\ "getProductivityScore" \in called => utilScore = 0

C13_Witness ==
    /\ blocks = <<>>
    /\ called = {"getFallbackSuggestions", "getProductivityScore"}
    /\ analysis.productivityScore = Num(0)
    /\ utilScore = 0

C14_Optimizations == SelectSeq(suggestions, LAMBDA s : s.type = "optimization")

\* the gap of largest duration, the earliest one on a tie
C14_Chosen ==
    CHOOSE g \in { analysis.gaps[i] : i \in 1..Len(analysis.gaps) } :
        \A i \in 1..Len(analysis.gaps) :
            \/ analysis.gaps[i].duration < g.duration
            \/ analysis.gaps[i].duration = g.duration /\ g.start <= analysis.gaps[i].start

C14_ExpectedBlocks ==
    (IF C14_Chosen.duration >= 2 * Hour
     THEN << [category |-> "work", startTime |-> C14_Chosen.start,
              endTime |-> C14_Chosen.start + 2 * Hour] >>
     ELSE <<>>)
    \o (IF C14_Chosen.duration >= 3 * Hour
        THEN << [category |-> "learning", startTime |-> C14_Chosen.start + 2 * Hour,
                 endTime |-> C14_Chosen.start + 3 * Hour] >>
        ELSE <<>>)

\* C14: when at least one gap exists, exactly one optimization suggestion is
\* returned; it is built on the gap of largest duration (the earliest on a
\* tie), holds a 2-hour work block at the gap's start iff the gap lasts at
\* least 2h and after it a 1-hour learning block iff the gap lasts at least
\* 3h, and every proposed block lies inside that gap.
C14_GapRule ==
    (FallbackCalled /\ Len(analysis.gaps) > 0) =>
        /\ Len(C14_Optimizations) = 1
        /\ LET proposed == C14_Optimizations[1].blocks
           IN /\ [ i \in 1..Len(proposed) |->
                     [category |-> proposed[i].category,
                      startTime |-> proposed[i].startTime,
                      endTime |-> proposed[i].endTime] ] = C14_ExpectedBlocks
              /\ \A i \in 1..Len(proposed) :
                    /\ C14_Chosen.start <= proposed[i].startTime
                    /\ proposed[i].startTime < proposed[i].endTime
                    /\ proposed[i].endTime <= C14_Chosen.end

C14_Witness ==
    /\ FallbackCalled
    /\ Len(analysis.gaps) = 2
    /\ analysis.gaps[1].duration = analysis.gaps[2].duration
    /\ analysis.gaps[1].duration >= 2 * Hour
    /\ Len(C14_Optimizations) = 1
    /\ Len(C14_Optimizations[1].blocks) = 1
    /\ C14_Optimizations[1].blocks[1].startTime = analysis.gaps[1].start

\* the timeblocking suggestions that hold exactly one 30-minute break block
C15_BreakSuggestions ==
    SelectSeq(suggestions,
              LAMBDA s : /\ s.type = "timeblocking"
                         /\ Len(s.blocks) = 1
                         /\ s.blocks[1].category = "break"
                         /\ s.blocks[1].endTime - s.blocks[1].startTime = 2)

\* the first work interval of the list, in the order the list is given
C15_FirstWork ==
    blocks[CHOOSE i \in 1..Len(blocks) :
              /\ blocks[i].category = "work"
              /\ \A j \in 1..(i - 1) : blocks[j].category # "work"]

\* C15: a timeblocking suggestion with exactly one 30-minute break block is
\* returned iff the day has at least one work interval and fewer than two
\* break intervals; the break starts 30 minutes after the first work interval
\* of the list ends and ends 30 minutes later.
C15_BreakCoverage ==
    FallbackCalled =>
        /\ Len(C15_BreakSuggestions) = (IF C6_BreakRule THEN 1 ELSE 0)
        /\ C6_BreakRule =>
              /\ C15_BreakSuggestions[1].blocks[1].startTime = C15_FirstWork.endTime + 2
              /\ C15_BreakSuggestions[1].blocks[1].endTime = C15_FirstWork.endTime + 4

C15_Witness ==
    /\ FallbackCalled
    /\ Len(blocks) = 3
    /\ blocks[1].category = "break"
    /\ blocks[2].category = "work"
    /\ blocks[3].category = "work"
    /\ blocks[3].endTime # blocks[2].endTime
    /\ Len(C15_BreakSuggestions) = 1
    /\ C15_BreakSuggestions[1].blocks[1].startTime = blocks[2].endTime + 2

C16_Balances == SelectSeq(suggestions, LAMBDA s : s.type = "balance")

C16_TotalOverEight == C6_WorkTotal(Len(blocks)) > 8 * Hour

C16_SomeWorkOverFour ==
    \E i \in 1..Len(blocks) :
        blocks[i].category = "work" /\ blocks[i].endTime - blocks[i].startTime > 4 * Hour

\* C16: a balance suggestion is returned iff total work exceeds 8h or some
\* work interval exceeds 4h; it holds the break 14-15 exactly when total work
\* exceeds 8h and, after it, the micro break 11-11.25 exactly when some work
\* interval exceeds 4h.  Exactly 8h in total and exactly 4h trigger nothing.
C16_EnergyBlocks ==
    FallbackCalled =>
        /\ Len(C16_Balances) = (IF C16_TotalOverEight \/ C16_SomeWorkOverFour THEN 1 ELSE 0)
        /\ (C16_TotalOverEight \/ C16_SomeWorkOverFour) =>
              LET proposed == C16_Balances[1].blocks
              IN [ i \in 1..Len(proposed) |->
                     [category |-> proposed[i].category,
                      startTime |-> proposed[i].startTime,
                      endTime |-> proposed[i].endTime] ]
                 = (IF C16_TotalOverEight
                    THEN << [category |-> "break", startTime |-> 56, endTime |-> 60] >>
                    ELSE <<>>)
                   \o (IF C16_SomeWorkOverFour
                       THEN << [category |-> "break", startTime |-> 44, endTime |-> 45] >>
                       ELSE <<>>)

C16_Witness ==
    /\ FallbackCalled
    /\ C16_TotalOverEight
    /\ ~C16_SomeWorkOverFour
    /\ Len(C16_Balances) = 1
    /\ Len(C16_Balances[1].blocks) = 1
    /\ C16_Balances[1].blocks[1].startTime = 56

C17_Productivities == SelectSeq(suggestions, LAMBDA s : s.type = "productivity")

\* the score calculateProductivityScore returned is a number below 70
\* (-Infinity is below 70, NaN is not)
C17_ScoreBelow70 ==
    \/ analysis.productivityScore.kind = "num" /\ analysis.productivityScore.val < 70
    \/ analysis.productivityScore.kind = "ninf"

\* C17: a productivity suggestion is returned iff the productivity score of
\* the day's intervals is below 70, and it proposes exactly the pair work 9-11
\* and exercise 18-19.
C17_LowScoreRule ==
    FallbackCalled =>
        /\ Len(C17_Productivities) = (IF C17_ScoreBelow70 THEN 1 ELSE 0)
        /\ \A i \in 1..Len(C17_Productivities) :
              LET proposed == C17_Productivities[i].blocks
              IN [ k \in 1..Len(proposed) |->
                     [category |-> proposed[k].category,
                      startTime |-> proposed[k].startTime,
                      endTime |-> proposed[k].endTime] ]
                 = << [category |-> "work", startTime |-> 36, endTime |-> 44],
                      [category |-> "exercise", startTime |-> 72, endTime |-> 76] >>

C17_Witness ==
    /\ FallbackCalled
    /\ blocks # <<>>
    /\ analysis.productivityScore.kind = "num"
    /\ analysis.productivityScore.val < 70
    /\ Len(C17_Productivities) = 1

\* C18: the peak-hours bonus of 3 x duration is added for an interval iff it
\* is a work interval whose startTime lies in [9, 11): a work interval that
\* starts at 11 gets none, and neither does any other category.  Stated on
\* the accumulated score of a single-interval day.
C18_PeakBonusHalfOpen ==
    (FallbackCalled /\ Len(blocks) = 1) =>
        LET b == blocks[1]
            d == b.endTime - b.startTime
        IN rawScore = d * 10 + d * bonuses(b.category) - LongPenalty(b)
                      + (IF b.category = "work" /\ b.startTime >= 9 * Hour
                                                /\ b.startTime < 11 * Hour
                         THEN d * 3 ELSE 0)

C19_CategoryBonus(c) ==
    IF c = "work" THEN 5
    ELSE IF c = "learning" THEN 7
    ELSE IF c = "exercise" THEN 8
    ELSE IF c = "break" THEN 3
    ELSE IF c = "meeting" THEN 4
    ELSE IF c = "personal" THEN 2
    ELSE 3

\* the sum over the first n intervals of duration x (10 + category bonus)
RECURSIVE C19_Weighted(_)
C19_Weighted(n) ==
    IF n = 0 THEN 0
    ELSE C19_Weighted(n - 1)
         + (blocks[n].endTime - blocks[n].startTime) * (10 + C19_CategoryBonus(blocks[n].category))

\* what the time-of-day bonus and the length penalty change over the first n intervals
RECURSIVE C19_Adjustments(_)
C19_Adjustments(n) ==
    IF n = 0 THEN 0
    ELSE C19_Adjustments(n - 1) + PeakBonus(blocks[n]) - LongPenalty(blocks[n])

\* C19: apart from the time-of-day bonus and the length penalty, each interval
\* adds duration x (10 + category bonus) to the accumulated score, the bonus
\* being work 5, learning 7, exercise 8, break 3, meeting 4, personal 2 and 3
\* for any other category.
C19_WeightedAccumulation ==
    FallbackCalled => rawScore - C19_Adjustments(Len(blocks)) = C19_Weighted(Len(blocks))

C19_Witness ==
    /\ FallbackCalled
    /\ Len(blocks) = 3
    /\ blocks[1].category = "travel"
    /\ blocks[2].category = "learning"
    /\ blocks[3].category = "work"
    /\ blocks[3].endTime - blocks[3].startTime > 4 * Hour
    /\ rawScore = 4 * 13 + 4 * 17 + 24 * 15 + 24 * 3 - 8 * 5

\* long valid intervals, the ones that lower a day's score the most
C20_LongIntervals ==
    { Iv("work", 0, 96), Iv("work", 48, 96), Iv("work", 36, 60),
      Iv("personal", 0, 96), Iv("personal", 36, 40), Iv("break", 0, 96) }

C20_ValidDays ==
    { bs \in InputLists : ValidIntervals(bs) }
    \cup UNION { [1..n -> C20_LongIntervals] : n \in 1..3 }

C20_BothFire(result) ==
    /\ \E i \in 1..Len(result) : result[i].type = "balance"
    /\ \E i \in 1..Len(result) : result[i].type = "productivity"

\* C20: there is a day of valid intervals (each with startTime < endTime) for
\* which getFallbackSuggestions returns a balance and a productivity
\* suggestion together.  Evaluated in the states in which the engine has run,
\* over the valid days of the inputs and days built from long intervals.
C20_EnergyAndLowScoreTogether ==
    FallbackCalled =>
        \E bs \in C20_ValidDays : \E h \in Hours :
            C20_BothFire(getFallbackSuggestions(bs, h))

\* C21: the engine only reads its input: a call of getFallbackSuggestions
\* (analyzeSchedule, findScheduleGaps, calculateProductivityScore) or of
\* getProductivityScore leaves the caller's interval list as it was, in
\* content and in order.
C21_InputUnchanged == [][blocks' = blocks]_vars

C21_Witness ==
    /\ called = {"getFallbackSuggestions", "getProductivityScore"}
    /\ Len(blocks) = 3
    /\ blocks # SortByStart(blocks)
    /\ Len(analysis.gaps) >= 1

\* C22: every block stored in timeBlocks has startTime < endTime, whatever
\* was saved in the modal, deleted or applied from a suggestion, local or
\* remote.
C22_StoredBlocksValid ==
    \A d \in DOMAIN timeBlocks : \A i \in 1..Len(timeBlocks[d]) :
        timeBlocks[d][i].startTime < timeBlocks[d][i].endTime

\* C27: no two blocks stored under the same date key overlap in time.
C27_StoredBlocksDisjoint ==
    \A d \in DOMAIN timeBlocks : \A i, j \in 1..Len(timeBlocks[d]) :
        i < j => ~(/\ timeBlocks[d][i].startTime < timeBlocks[d][j].endTime
                   /\ timeBlocks[d][j].startTime < timeBlocks[d][i].endTime)

C29_OnGrid(b) == b.startTime < b.endTime /\ b.startTime % 2 = 0 /\ b.endTime % 2 = 0

\* C29: in the daily grid a stored block that lies on the half-hour grid and
\* has startTime < endTime is listed for slot s exactly when
\* startTime <= s < endTime.
C29_ListedInItsSlots ==
    LET day == DayBlocks(timeBlocks, selectedDate)
    IN \A s \in generateTimeSlots :
          LET listed == getBlocksForTimeSlot(s)
              expected == SelectSeq(day, LAMBDA b : b.startTime <= s /\ s < b.endTime)
          IN SelectSeq(listed, C29_OnGrid) = SelectSeq(expected, C29_OnGrid)

\* C24: for a non-empty list in which every interval has positive duration
\* calculateProductivityScore returns at least 70, so the low-score rule does
\* not fire.
C24_ValidDayScoresSeventy ==
    (FallbackCalled /\ blocks # <<>> /\ ValidIntervals(blocks)) =>
        /\ analysis.productivityScore.kind = "num"
        /\ analysis.productivityScore.val >= 70
        /\ \A i \in 1..Len(suggestions) : suggestions[i].type # "productivity"

C24_Witness ==
    /\ FallbackCalled
    /\ Len(blocks) = 3
    /\ ValidIntervals(blocks)
    /\ \E i \in 1..3 : blocks[i].category = "meeting" /\ blocks[i].endTime - blocks[i].startTime > 4 * Hour
    /\ analysis.productivityScore.kind = "num"
    /\ analysis.productivityScore.val >= 70
    /\ \E i \in 1..Len(suggestions) : suggestions[i].type = "balance"

\* the lists that hold the intervals of blocks in another order
C28_Permutations ==
    { [ i \in 1..Len(blocks) |-> blocks[p[i]] ] :
        p \in { q \in [1..Len(blocks) -> 1..Len(blocks)] :
                  \A i, j \in 1..Len(blocks) : i # j => q[i] # q[j] } }

\* C28: the result of getFallbackSuggestions depends only on the set of the
\* day's intervals: every permutation of the same valid, non-overlapping
\* intervals yields the same suggestion list with the same proposed blocks.
C28_OrderIndependent ==
    (FallbackCalled /\ ValidIntervals(blocks) /\ NonOverlapping(blocks)) =>
        \A other \in C28_Permutations :
            getFallbackSuggestions(other, currentHour) = suggestions

\* C30: the two scorers agree: getProductivityScore and
\* calculateProductivityScore return the same score for the same list (stated
\* here for the lists whose intervals all have startTime < endTime).
C30_ScorersAgree ==
    (called = {"getFallbackSuggestions", "getProductivityScore"} /\ ValidIntervals(blocks)) =>
        analysis.productivityScore = Num(utilScore)

\* C23: the schedule persists between sessions: once the mount effects have
\* run, timeBlocks is the schedule the user's operations left, and so is the
\* schedule written in localStorage; it is never left replaced by an empty
\* schedule the user did not create.
C23_SchedulePersists ==
    ~loading.queued =>
        /\ timeBlocks = userSchedule
        /\ JSONparse(storage) = userSchedule

\* C25: whenever no suggestion request is in flight, aiSuggestions is the
\* result computed for the current selectedDate and timeBlocks (stated for
\* results of the local rules, which are a function of the day's blocks).
C25_ShowsNewestResult ==
    (requests = <<>> /\ ~loading.queued /\ lastDone.path = "local") =>
        \E h \in Hours :
            aiSuggestions = getFallbackSuggestions(DayBlocks(timeBlocks, selectedDate), h)

\* C26: isLoadingAI is true whenever a call of getAISuggestions started by
\* generateAISuggestions is still pending.
C26_LoadingWhilePending == requests # <<>> => isLoadingAI

=============================================================================
